---------------------------- MODULE Spec2Model ----------------------------
(***************************************************************************)
(* A model of pyHS100.smartplug.SmartPlug: the relay state, the led and    *)
(* the feature list of a TP-Link smart plug, derived from the device's     *)
(* system-info snapshot, and the commands that set the relay and the led.  *)
(*                                                                         *)
(* A Python string is a sequence of one-character strings, so that upper() *)
(* and split(':') are computed rather than assumed.  A Python value is a   *)
(* record [t, n, s]: t the type name, n the number (for a float: twice the *)
(* number, so that 0.5 is representable), s the characters of a str.       *)
(***************************************************************************)
EXTENDS Integers, Sequences, FiniteSets, TLC

VARIABLES
    dev,         \* what the device holds and reports: relay_state, led_off, feature, model
    self,        \* the attributes of the SmartPlug object
    last,        \* the most recent call on the object and everything it did
    requested,   \* history: the relay state of the last set_relay_state that returned
                 \* normally (-1: none yet)
    quiet        \* history: the device has not changed on its own since the last call

vars == <<dev, self, last, requested, quiet>>

---------------------------------------------------------------------------
(* Bounds of the model. *)

\* Raw integers reported for relay_state and led_off range over -1..MaxRaw.
MaxRaw == 2
\* A feature string holds at most MaxFeatures colon-separated codes.
MaxFeatures == 2

---------------------------------------------------------------------------
(* Python values. *)

PyInt(i) == [t |-> "int", n |-> i, s |-> <<>>]
PyBool(b) == [t |-> "bool", n |-> IF b THEN 1 ELSE 0, s |-> <<>>]
PyFloatHalves(h) == [t |-> "float", n |-> h, s |-> <<>>]
PyStr(cs) == [t |-> "str", n |-> 0, s |-> cs]
PyNone == [t |-> "NoneType", n |-> 0, s |-> <<>>]

IsNumber(v) == v.t \in {"int", "bool", "float"}
\* Twice the numeric value of a number (bool counts as 0 or 1, as in Python).
Twice(v) == IF v.t = "float" THEN v.n ELSE 2 * v.n

\* v == k for an int literal k: numbers compare by value across int, bool
\* and float; a str or None never equals a number.
PyEq(v, k) == IsNumber(v) /\ Twice(v) = 2 * k

\* bool(v)
bool(v) ==
    CASE IsNumber(v) -> Twice(v) # 0
      [] v.t = "str" -> Len(v.s) > 0
      [] OTHER -> FALSE

\* 1 - v for a number v (the caller has checked IsNumber).
OneMinus(v) ==
    IF v.t = "float" THEN PyFloatHalves(2 - v.n) ELSE PyInt(1 - v.n)

\* isinstance(value, str)
isinstance_str(value) == value.t = "str"

LowerCase == <<"a","b","c","d","e","f","g","h","i","j","k","l","m",
               "n","o","p","q","r","s","t","u","v","w","x","y","z">>
UpperCase == <<"A","B","C","D","E","F","G","H","I","J","K","L","M",
               "N","O","P","Q","R","S","T","U","V","W","X","Y","Z">>

upper_char(c) ==
    IF \E i \in 1..Len(LowerCase) : LowerCase[i] = c
    THEN UpperCase[CHOOSE i \in 1..Len(LowerCase) : LowerCase[i] = c]
    ELSE c

\* str.upper()
upper(cs) == [i \in 1..Len(cs) |-> upper_char(cs[i])]

\* str.split(sep) for a one-character separator: never empty, ''.split(':') == ['']
RECURSIVE split(_, _)
split(cs, sep) ==
    IF cs = <<>> THEN << <<>> >>
    ELSE LET rest == split(Tail(cs), sep)
         IN  IF Head(cs) = sep
             THEN << <<>> >> \o rest
             ELSE << <<Head(cs)>> \o Head(rest) >> \o Tail(rest)

Elements(seq) == {seq[i] : i \in 1..Len(seq)}

---------------------------------------------------------------------------
(* Class constants of SmartPlug. *)

SWITCH_STATE_ON == <<"O", "N">>
SWITCH_STATE_OFF == <<"O", "F", "F">>
SWITCH_STATE_UNKNOWN == <<"U", "N", "K", "N", "O", "W", "N">>

FEATURE_ENERGY_METER == <<"E", "N", "E">>
FEATURE_TIMER == <<"T", "I", "M">>
ALL_FEATURES == {FEATURE_ENERGY_METER, FEATURE_TIMER}

---------------------------------------------------------------------------
(* Exceptions, and what one call on the object did. *)

NoExc == [type |-> "", detail |-> "", arg |-> PyNone]
ValueError(detail, arg) == [type |-> "ValueError", detail |-> detail, arg |-> arg]
TypeError(arg) ==
    [type |-> "TypeError", detail |-> "unsupported operand type(s) for -", arg |-> arg]
AttributeError(arg) ==
    [type |-> "AttributeError", detail |-> "object has no attribute 'split'", arg |-> arg]
\* The error a collaborator (device session, command dispatcher) raises.
SmartPlugException(detail) ==
    [type |-> "SmartPlugException", detail |-> detail, arg |-> PyNone]

\* type(value)
PyType(value) == [t |-> "type", n |-> 0, s |-> <<value.t>>]

\* A call that has done nothing yet and returns None.
Done(obj) ==
    [self |-> obj, exc |-> NoExc, value |-> PyNone, items |-> <<>>,
     calls |-> <<>>, warnings |-> <<>>, fetches |-> 0, collab |-> ""]

Return(r, v) == [r EXCEPT !.value = v]
Raise(r, e) == [r EXCEPT !.exc = e]
Warn(r, v) == [r EXCEPT !.warnings = Append(@, v)]

Returned(r) == r.exc = NoExc

---------------------------------------------------------------------------
(* The collaborators, not part of smartplug.py: the device session behind  *)
(* self.sys_info / self.model and the command dispatcher _query_helper.    *)
(* What they answer is the environment's choice:                           *)
(*   S = [info, failAt, err]: the snapshot the device reports now, and     *)
(*       which access of this call (0: none) fails with err;               *)
(*   D = [err, applied]: whether the dispatch fails ("" if not) and        *)
(*       whether the device applied the command.                           *)
(***************************************************************************)

CommErrors == {"timeout", "malformed response"}

\* self.sys_info, the n-th access of the session in this call: a fresh
\* snapshot, or the session's error.
sys_info(S, n) ==
    IF S.failAt = n
    THEN [ok |-> FALSE, info |-> S.info, err |-> S.err]
    ELSE [ok |-> TRUE, info |-> S.info, err |-> ""]

\* The call r after one access of the session that answered si.
Fetched(r, si) ==
    IF si.ok
    THEN [r EXCEPT !.fetches = @ + 1]
    ELSE [r EXCEPT !.fetches = @ + 1, !.collab = si.err,
                   !.exc = SmartPlugException(si.err)]

\* self._query_helper(target, cmd, arg): one exchange with the device; the
\* dispatcher's error, if any, is raised to the caller.
query_helper(r, target, cmd, arg, D) ==
    LET sent == [r EXCEPT !.calls = Append(@, [target |-> target, cmd |-> cmd, arg |-> arg])]
    IN  IF D.err = "" THEN sent
        ELSE [sent EXCEPT !.collab = D.err, !.exc = SmartPlugException(D.err)]

---------------------------------------------------------------------------
(* SmartPlug. *)

\* __init__: the attributes the object holds.
SmartPlugInit == [emeter_type |-> "emeter", emeter_units |-> FALSE]

\* A getter that decodes by truthiness and has no UNKNOWN.
state_getter_truthy(obj, S) ==
    LET si == sys_info(S, 1)
        r == Fetched(Done(obj), si)
    IN  IF ~si.ok THEN r
        ELSE IF bool(si.info.relay_state) THEN Return(r, PyStr(SWITCH_STATE_ON))
        ELSE Return(r, PyStr(SWITCH_STATE_OFF))

\* state (getter)
state_getter(obj, S) ==
    LET si == sys_info(S, 1)
        r == Fetched(Done(obj), si)
        relay_state == si.info.relay_state
    IN  IF ~si.ok THEN r
        ELSE IF PyEq(relay_state, 0) THEN Return(r, PyStr(SWITCH_STATE_OFF))
        ELSE IF PyEq(relay_state, 1) THEN Return(r, PyStr(SWITCH_STATE_ON))
        ELSE Return(Warn(r, relay_state), PyStr(SWITCH_STATE_UNKNOWN))

\* A turn_on that also records the new state on the object.
turn_on_optimistic(obj, D) ==
    LET r == query_helper(Done(obj), "system", "set_relay_state",
                          [key |-> "state", val |-> 1], D)
    IN  IF Returned(r)
        THEN [r EXCEPT !.self = [emeter_type |-> obj.emeter_type,
                                 emeter_units |-> obj.emeter_units,
                                 relay_state |-> 1]]
        ELSE r

\* turn_on
turn_on(obj, D) ==
    query_helper(Done(obj), "system", "set_relay_state", [key |-> "state", val |-> 1], D)

\* A turn_off that swallows the dispatcher's error.
turn_off_quiet(obj, D) ==
    LET r == query_helper(Done(obj), "system", "set_relay_state",
                          [key |-> "state", val |-> 0], D)
    IN  [r EXCEPT !.exc = NoExc]

\* turn_off
turn_off(obj, D) ==
    query_helper(Done(obj), "system", "set_relay_state", [key |-> "state", val |-> 0], D)

\* A setter that takes every string other than ON for OFF.
state_setter_default_off(obj, value, D) ==
    IF ~isinstance_str(value)
    THEN Raise(Done(obj), ValueError("State must be str, not of %s.", PyType(value)))
    ELSE IF upper(value.s) = SWITCH_STATE_ON THEN turn_on(obj, D)
    ELSE turn_off(obj, D)

\* A setter that compares without upper().
state_setter_exact(obj, value, D) ==
    IF ~isinstance_str(value)
    THEN Raise(Done(obj), ValueError("State must be str, not of %s.", PyType(value)))
    ELSE IF value.s = SWITCH_STATE_ON THEN turn_on(obj, D)
    ELSE IF value.s = SWITCH_STATE_OFF THEN turn_off(obj, D)
    ELSE Raise(Done(obj), ValueError("State %s is not valid.", value))

\* state (setter)
state_setter(obj, value, D) ==
    IF ~isinstance_str(value)
    THEN Raise(Done(obj), ValueError("State must be str, not of %s.", PyType(value)))
    ELSE IF upper(value.s) = SWITCH_STATE_ON THEN turn_on(obj, D)
    ELSE IF upper(value.s) = SWITCH_STATE_OFF THEN turn_off(obj, D)
    ELSE Raise(Done(obj), ValueError("State %s is not valid.", value))

\* An is_on that answers "state is not OFF".
is_on_not_off(obj, S) ==
    LET r == state_getter(obj, S)
    IN  IF Returned(r)
        THEN [r EXCEPT !.value = PyBool(r.value # PyStr(SWITCH_STATE_OFF)),
                       !.warnings = <<>>]
        ELSE r

\* An is_on that answers "state is ON".
is_on_by_state(obj, S) ==
    LET r == state_getter(obj, S)
    IN  IF Returned(r)
        THEN [r EXCEPT !.value = PyBool(r.value = PyStr(SWITCH_STATE_ON)),
                       !.warnings = <<>>]
        ELSE r

\* is_on
is_on(obj, S) ==
    LET si == sys_info(S, 1)
        r == Fetched(Done(obj), si)
    IN  IF ~si.ok THEN r ELSE Return(r, PyBool(bool(si.info.relay_state)))

\* The loop of features over the codes fs from index i on: one warning per
\* code outside ALL_FEATURES, each reading self.model from the session (the
\* n-th access of this call).
RECURSIVE warn_unknown(_, _, _, _, _)
warn_unknown(r, fs, i, S, n) ==
    IF i > Len(fs) THEN r
    ELSE IF fs[i] \in ALL_FEATURES THEN warn_unknown(r, fs, i + 1, S, n)
    ELSE LET si == sys_info(S, n)
             q == Fetched(r, si)
         IN  IF ~si.ok THEN q
             ELSE warn_unknown(Warn(q, PyStr(fs[i])), fs, i + 1, S, n + 1)

\* A features that drops the codes it does not know.
features_known_only(obj, S) ==
    LET si == sys_info(S, 1)
        r == Fetched(Done(obj), si)
        feature == si.info.feature
    IN  IF ~si.ok THEN r
        ELSE IF feature.t # "str" THEN Raise(r, AttributeError(feature))
        ELSE LET fs == split(feature.s, ":")
                 w == warn_unknown(r, fs, 1, S, 2)
             IN  IF Returned(w)
                 THEN [w EXCEPT !.items = SelectSeq(fs, LAMBDA f : f \in ALL_FEATURES)]
                 ELSE w

\* features
features(obj, S) ==
    LET si == sys_info(S, 1)
        r == Fetched(Done(obj), si)
        feature == si.info.feature
    IN  IF ~si.ok THEN r
        ELSE IF feature.t # "str" THEN Raise(r, AttributeError(feature))
        ELSE LET fs == split(feature.s, ":")
                 w == warn_unknown(r, fs, 1, S, 2)
             IN  IF Returned(w) THEN [w EXCEPT !.items = fs] ELSE w

\* has_emeter
has_emeter(obj, S) ==
    LET r == features(obj, S)
    IN  IF Returned(r)
        THEN [r EXCEPT !.value = PyBool(FEATURE_ENERGY_METER \in Elements(r.items)),
                       !.items = <<>>]
        ELSE r

\* led (getter)
led_getter(obj, S) ==
    LET si == sys_info(S, 1)
        r == Fetched(Done(obj), si)
        led_off == si.info.led_off
    IN  IF ~si.ok THEN r
        ELSE IF ~IsNumber(led_off) THEN Raise(r, TypeError(led_off))
        ELSE Return(r, PyBool(bool(OneMinus(led_off))))

\* A led setter that sends the state itself, not its negation.
led_setter_direct(obj, state, D) ==
    query_helper(Done(obj), "system", "set_led_off",
                 [key |-> "off", val |-> IF bool(state) THEN 1 ELSE 0], D)

\* led (setter)
led_setter(obj, state, D) ==
    query_helper(Done(obj), "system", "set_led_off",
                 [key |-> "off", val |-> IF bool(state) THEN 0 ELSE 1], D)

---------------------------------------------------------------------------
(* The values the environment and the caller choose from. *)

RawInts == {PyInt(i) : i \in -1..MaxRaw}
\* What a device may report in relay_state or led_off: integers, booleans,
\* the floats 0.0, 0.5 and 1.0, None, and the strings "" and "0".
RawValues ==
    RawInts \cup {PyBool(TRUE), PyBool(FALSE)}
            \cup {PyFloatHalves(h) : h \in 0..2}
            \cup {PyNone, PyStr(<<>>), PyStr(<<"0">>)}
\* The integers 0, 1 and MaxRaw only.
CoreRaw == {PyInt(0), PyInt(1), PyInt(MaxRaw)}

RECURSIVE join(_, _)
join(codes, sep) ==
    IF Len(codes) = 1 THEN codes[1]
    ELSE codes[1] \o <<sep>> \o join(Tail(codes), sep)

FeatureCodes == ALL_FEATURES \cup {<<"X", "Y", "Z">>, <<"e", "n", "e">>, <<>>}
\* Every string of 1..MaxFeatures codes joined by colons, and None.
FeatureValues ==
    {PyStr(join(codes, ":")) :
        codes \in UNION {[1..k -> FeatureCodes] : k \in 1..MaxFeatures}}
    \cup {PyNone}
DefaultFeature == PyStr(join(<<FEATURE_ENERGY_METER, FEATURE_TIMER>>, ":"))
CoreFeatures ==
    {DefaultFeature,
     PyStr(join(<<FEATURE_TIMER, <<"X", "Y", "Z">> >>, ":"))}

\* Every spelling of w in upper and lower case.
CaseVariants(w) ==
    {cs \in [1..Len(w) -> Elements(w) \cup {upper_char(c) : c \in Elements(w)}] :
        \A i \in 1..Len(w) : cs[i] \in {w[i], upper_char(w[i])}}

StateWords ==
    {<<"o", "n">>, <<"o", "f", "f">>, <<>>, <<"o">>, <<"n", "o">>, <<"o", "f">>,
     <<"o", "n", " ">>, <<"o", "n", "n">>}
\* What a caller may assign to state: the spellings of the words above,
\* "MAYBE", "1", and values that are not strings.
StateInputs ==
    {PyStr(cs) : cs \in UNION {CaseVariants(w) : w \in StateWords}}
    \cup {PyStr(<<"M", "A", "Y", "B", "E">>), PyStr(<<"1">>)}
    \cup {PyInt(42), PyInt(1), PyInt(0), PyBool(TRUE), PyNone}
CoreInputs ==
    {PyStr(<<"o", "N">>), PyStr(<<"O", "F", "F">>),
     PyStr(<<"M", "A", "Y", "B", "E">>), PyInt(42)}

\* What a caller may assign to led.
LedInputs == {PyBool(TRUE), PyBool(FALSE), PyInt(0), PyInt(MaxRaw), PyNone}
CoreLedInputs == {PyBool(TRUE), PyBool(FALSE)}

\* The session's answers to a call that accesses it at most k times.
Sessions(k) ==
    {[info |-> dev, failAt |-> 0, err |-> ""]}
    \cup {[info |-> dev, failAt |-> n, err |-> e] : n \in 1..k, e \in CommErrors}

\* The dispatcher's answers: to a call that dispatches nothing (r is what the
\* call does when the dispatcher succeeds) there is nothing to answer.
NoDispatch == [err |-> "", applied |-> FALSE]
Dispatches(r) ==
    IF r.calls = <<>> THEN {NoDispatch}
    ELSE [err : {""} \cup CommErrors, applied : BOOLEAN]

---------------------------------------------------------------------------
(* The state machine. *)

\* The device after it received the commands cs and applied them.
RECURSIVE DeviceApplies(_, _)
DeviceApplies(d, cs) ==
    IF cs = <<>> THEN d
    ELSE LET c == Head(cs)
             e == IF c.cmd = "set_relay_state"
                  THEN [d EXCEPT !.relay_state = PyInt(c.arg.val)]
                  ELSE [d EXCEPT !.led_off = PyInt(c.arg.val)]
         IN  DeviceApplies(e, Tail(cs))

RelayCalls(cs) == SelectSeq(cs, LAMBDA c : c.cmd = "set_relay_state")

Idle ==
    [op |-> "__init__", arg |-> PyNone, exc |-> NoExc, value |-> PyNone,
     items |-> <<>>, calls |-> <<>>, warnings |-> <<>>, fetches |-> 0,
     collab |-> "", applied |-> FALSE]

Init(R, L, F) ==
    /\ dev \in [relay_state : R, led_off : L, feature : F]
    /\ self = SmartPlugInit
    /\ last = Idle
    /\ requested = -1
    /\ quiet = TRUE

\* One call op(arg) on the object that did r, the dispatcher answering D.
Call(op, arg, r, D) ==
    /\ last' = [op |-> op, arg |-> arg, exc |-> r.exc, value |-> r.value,
                items |-> r.items, calls |-> r.calls, warnings |-> r.warnings,
                fetches |-> r.fetches, collab |-> r.collab,
                applied |-> (D.applied /\ r.calls # <<>>)]
    /\ self' = r.self
    /\ dev' = IF D.applied THEN DeviceApplies(dev, r.calls) ELSE dev
    /\ requested' = IF Returned(r) /\ RelayCalls(r.calls) # <<>>
                    THEN RelayCalls(r.calls)[Len(RelayCalls(r.calls))].arg.val
                    ELSE requested
    /\ quiet' = TRUE

StateGet == \E S \in Sessions(1) : Call("state", PyNone, state_getter(self, S), NoDispatch)

StateSet(Inputs) ==
    \E value \in Inputs :
        \E D \in Dispatches(state_setter(self, value, NoDispatch)) :
            Call("state.setter", value, state_setter(self, value, D), D)

IsOn == \E S \in Sessions(1) : Call("is_on", PyNone, is_on(self, S), NoDispatch)

TurnOn == \E D \in Dispatches(turn_on(self, NoDispatch)) : Call("turn_on", PyNone, turn_on(self, D), D)

TurnOff == \E D \in Dispatches(turn_off(self, NoDispatch)) : Call("turn_off", PyNone, turn_off(self, D), D)

HasEmeter ==
    \E S \in Sessions(MaxFeatures + 1) :
        Call("has_emeter", PyNone, has_emeter(self, S), NoDispatch)

Features ==
    \E S \in Sessions(MaxFeatures + 1) :
        Call("features", PyNone, features(self, S), NoDispatch)

LedGet == \E S \in Sessions(1) : Call("led", PyNone, led_getter(self, S), NoDispatch)

LedSet(Inputs) ==
    \E state \in Inputs :
        \E D \in Dispatches(led_setter(self, state, NoDispatch)) :
            Call("led.setter", state, led_setter(self, state, D), D)

\* The device changes on its own: the button on the plug, another controller,
\* a firmware that reports something new.
DeviceRelay(R) ==
    /\ \E v \in R \ {dev.relay_state} : dev' = [dev EXCEPT !.relay_state = v]
    /\ quiet' = FALSE
    /\ UNCHANGED <<self, last, requested>>

DeviceLed(L) ==
    /\ \E v \in L \ {dev.led_off} : dev' = [dev EXCEPT !.led_off = v]
    /\ quiet' = FALSE
    /\ UNCHANGED <<self, last, requested>>

DeviceFeature(F) ==
    /\ \E v \in F \ {dev.feature} : dev' = [dev EXCEPT !.feature = v]
    /\ quiet' = FALSE
    /\ UNCHANGED <<self, last, requested>>

\* Every operation, on a device that reports 0, 1 or MaxRaw.
Next ==
    \/ StateGet
    \/ StateSet(CoreInputs)
    \/ IsOn
    \/ TurnOn
    \/ TurnOff
    \/ HasEmeter
    \/ Features
    \/ LedGet
    \/ LedSet(CoreLedInputs)
    \/ DeviceRelay(CoreRaw)
    \/ DeviceLed(CoreRaw)
    \/ DeviceFeature(CoreFeatures)

Spec == Init(CoreRaw, CoreRaw, CoreFeatures) /\ [][Next]_vars

\* The relay: every raw relay_state, every input to the state setter.
NextRelay ==
    \/ StateGet
    \/ StateSet(StateInputs)
    \/ IsOn
    \/ TurnOn
    \/ TurnOff
    \/ DeviceRelay(RawValues)

SpecRelay == Init(RawValues, {PyInt(0)}, {DefaultFeature}) /\ [][NextRelay]_vars

\* The led: every raw led_off, every input to the led setter.
NextLed ==
    \/ LedGet
    \/ LedSet(LedInputs)
    \/ DeviceLed(RawValues)

SpecLed == Init({PyInt(0)}, RawValues, {DefaultFeature}) /\ [][NextLed]_vars

\* The features: every feature string.
NextFeat ==
    \/ Features
    \/ HasEmeter
    \/ DeviceFeature(FeatureValues)

SpecFeat == Init({PyInt(0)}, {PyInt(0)}, FeatureValues) /\ [][NextFeat]_vars

---------------------------------------------------------------------------
(* The properties.  Each is stated on the state a call leaves behind: last *)
(* is what the call did, and while quiet holds dev is still the snapshot   *)
(* the call was answered with.                                             *)
(***************************************************************************)

\* The session answering with the device's present snapshot.
Now == [info |-> dev, failAt |-> 0, err |-> ""]

\* The call at hand was op, and the session did not fail during it.
Read(op) == last.op = op /\ quiet /\ last.collab = ""

\* The values Python holds equal to 0, to 1.
Zeros == {PyInt(0), PyBool(FALSE), PyFloatHalves(0)}
Ones == {PyInt(1), PyBool(TRUE), PyFloatHalves(2)}
\* The values of RawValues that Python holds false.
Falsy == Zeros \cup {PyNone, PyStr(<<>>)}

\* The decoded state the raw value v stands for.
Decoded(v) ==
    IF v \in Zeros THEN PyStr(SWITCH_STATE_OFF)
    ELSE IF v \in Ones THEN PyStr(SWITCH_STATE_ON)
    ELSE PyStr(SWITCH_STATE_UNKNOWN)

\* value is a string that reads ON, reads OFF, whatever the case of its letters.
SaysOn(value) ==
    /\ value.t = "str"
    /\ Len(value.s) = 2
    /\ value.s[1] \in {"o", "O"}
    /\ value.s[2] \in {"n", "N"}
SaysOff(value) ==
    /\ value.t = "str"
    /\ Len(value.s) = 3
    /\ value.s[1] \in {"o", "O"}
    /\ value.s[2] \in {"f", "F"}
    /\ value.s[3] \in {"f", "F"}

RelayCommand(v) ==
    [target |-> "system", cmd |-> "set_relay_state", arg |-> [key |-> "state", val |-> v]]
LedCommand(v) ==
    [target |-> "system", cmd |-> "set_led_off", arg |-> [key |-> "off", val |-> v]]

\* C1: for every raw relay_state v the state getter returns, without an
\* error, OFF iff v == 0, ON iff v == 1 and UNKNOWN for every other value,
\* and it logs the raw value exactly when it answers UNKNOWN.
C1_StateDecodesEveryRaw ==
    Read("state") =>
        LET v == dev.relay_state
        IN  /\ Returned(last)
            /\ last.value = PyStr(SWITCH_STATE_OFF) <=> v \in Zeros
            /\ last.value = PyStr(SWITCH_STATE_ON) <=> v \in Ones
            /\ v \notin Zeros \cup Ones => last.value = PyStr(SWITCH_STATE_UNKNOWN)
            /\ last.warnings = IF v \in Zeros \cup Ones THEN <<>> ELSE <<v>>

C1_Witness ==
    /\ Read("state")
    /\ dev.relay_state = PyInt(-1)
    /\ last.value = PyStr(SWITCH_STATE_UNKNOWN)

\* C2: assigning to state a value that is not a string, or a string that says
\* neither ON nor OFF, raises ValueError naming the value (its type, when it
\* is no string) and dispatches no command, whatever the device holds.
C2_InvalidStateRaisesBeforeDispatch ==
    (last.op = "state.setter" /\ ~SaysOn(last.arg) /\ ~SaysOff(last.arg)) =>
        /\ last.exc.type = "ValueError"
        /\ last.exc.arg = IF last.arg.t = "str" THEN last.arg ELSE PyType(last.arg)
        /\ last.calls = <<>>
        /\ ~last.applied
        /\ last.fetches = 0

C2_Witness ==
    /\ last.op = "state.setter"
    /\ last.arg = PyStr(<<"M", "A", "Y", "B", "E">>)
    /\ last.exc.type = "ValueError"
    /\ dev.relay_state = PyInt(MaxRaw)

\* C3: assigning to state a string that says ON (OFF) in any case dispatches
\* exactly one command, system / set_relay_state with state = 1 (state = 0).
C3_ValidStateDispatchesOneCommand ==
    /\ (last.op = "state.setter" /\ SaysOn(last.arg)) => last.calls = <<RelayCommand(1)>>
    /\ (last.op = "state.setter" /\ SaysOff(last.arg)) => last.calls = <<RelayCommand(0)>>

C3_Witness ==
    /\ last.op = "state.setter"
    /\ last.arg = PyStr(<<"o", "N">>)
    /\ last.calls = <<RelayCommand(1)>>
    /\ Returned(last)

\* C4: for every raw relay_state v, is_on returns True iff v is truthy (for
\* a number: non-zero), also where the state getter answers UNKNOWN.
C4_IsOnIsTruthiness ==
    Read("is_on") =>
        /\ Returned(last)
        /\ last.value = PyBool(dev.relay_state \notin Falsy)

C4_Witness ==
    /\ Read("is_on")
    /\ dev.relay_state = PyInt(-1)
    /\ last.value = PyBool(TRUE)
    /\ state_getter(self, Now).value = PyStr(SWITCH_STATE_UNKNOWN)

\* C5 as stated: on every snapshot for which the state getter answers
\* UNKNOWN, is_on returns False.
C5_UnknownIsNotOn ==
    (Read("is_on") /\ state_getter(self, Now).value = PyStr(SWITCH_STATE_UNKNOWN)) =>
        last.value = PyBool(FALSE)

\* C5, amended: on a snapshot for which the state getter answers UNKNOWN,
\* is_on returns the truthiness of the raw relay_state: True for every
\* number and every non-empty string, False only for None and "".
C5_UnknownIsOnUnlessFalsy ==
    (Read("is_on") /\ state_getter(self, Now).value = PyStr(SWITCH_STATE_UNKNOWN)) =>
        /\ Returned(last)
        /\ IsNumber(dev.relay_state) => last.value = PyBool(TRUE)
        /\ last.value = PyBool(FALSE) <=> dev.relay_state \in {PyNone, PyStr(<<>>)}

C5_Witness ==
    /\ Read("is_on")
    /\ dev.relay_state = PyInt(MaxRaw)
    /\ state_getter(self, Now).value = PyStr(SWITCH_STATE_UNKNOWN)
    /\ last.value = PyBool(TRUE)

\* C6 as stated, for the integers: for every raw integer led_off the led
\* getter returns True iff led_off is 0, False for every other integer.
C6_LedIffLedOffFalsy ==
    (Read("led") /\ dev.led_off.t = "int") =>
        /\ Returned(last)
        /\ last.value = PyBool(dev.led_off.n = 0)

\* C7: assigning a boolean to led dispatches exactly one command, system /
\* set_led_off with off = 0 for True and off = 1 for False, and a device
\* that applied it then reports led equal to the boolean assigned.
C7_LedSetterSendsNegation ==
    (last.op = "led.setter" /\ last.arg.t = "bool") =>
        /\ last.calls = <<LedCommand(IF last.arg = PyBool(TRUE) THEN 0 ELSE 1)>>
        /\ (last.applied /\ quiet) => led_getter(self, Now).value = last.arg

C7_Witness ==
    /\ last.op = "led.setter"
    /\ last.arg = PyBool(FALSE)
    /\ last.applied
    /\ quiet
    /\ dev.led_off = PyInt(1)
    /\ led_getter(self, Now).value = PyBool(FALSE)

\* C8: whatever calls came before, the state getter asks the session once
\* and returns the decoding of the relay_state the device reports at that
\* moment, not the state last requested; and no call changes the object.
C8_StateIsReadFromDevice ==
    /\ self = SmartPlugInit
    /\ last.op = "state" => last.fetches = 1 /\ last.calls = <<>>
    /\ (Read("state") /\ Returned(last)) => last.value = Decoded(dev.relay_state)

C8_Witness ==
    /\ Read("state")
    /\ requested = 1
    /\ dev.relay_state = PyInt(0)
    /\ last.value = PyStr(SWITCH_STATE_OFF)

\* C9: when the dispatcher fails during a call that sets the relay or the
\* led, the call raises that very error after exactly one dispatch; when the
\* session fails during a read, the read raises that very error; and a call
\* raises SmartPlugException only when a collaborator raised it.
C9_CollaboratorErrorsPropagate ==
    /\ last.collab # "" => last.exc = SmartPlugException(last.collab)
    /\ (last.collab # "" /\ last.op \in {"state.setter", "turn_on", "turn_off", "led.setter"})
         => Len(last.calls) = 1 /\ last.fetches = 0
    /\ last.exc.type = "SmartPlugException" => last.collab = last.exc.detail
    /\ last.collab \in CommErrors \cup {""}

C9_Witness ==
    /\ last.op = "turn_off"
    /\ last.collab = "timeout"
    /\ last.exc = SmartPlugException("timeout")
    /\ last.calls = <<RelayCommand(0)>>

\* C10: for every feature string, features returns (unless the session
\* fails) exactly the codes between the colons, in order, unknown codes
\* kept, with one warning for each code that is neither ENE nor TIM; and
\* has_emeter is True iff ENE is one of those codes.
C10_FeaturesAreTheCodesBetweenColons ==
    /\ (Read("features") /\ dev.feature.t = "str") =>
            /\ Returned(last)
            /\ Len(last.items) >= 1
            /\ join(last.items, ":") = dev.feature.s
            /\ \A i \in 1..Len(last.items) : ":" \notin Elements(last.items[i])
            /\ last.warnings =
                   [i \in 1..Len(SelectSeq(last.items, LAMBDA f : f \notin ALL_FEATURES)) |->
                       PyStr(SelectSeq(last.items, LAMBDA f : f \notin ALL_FEATURES)[i])]
    /\ (Read("has_emeter") /\ dev.feature.t = "str") =>
            /\ Returned(last)
            /\ last.value = PyBool(FEATURE_ENERGY_METER \in Elements(features(self, Now).items))

C10_Witness ==
    /\ Read("features")
    /\ dev.feature = PyStr(join(<<FEATURE_ENERGY_METER, <<"X", "Y", "Z">> >>, ":"))
    /\ last.items = <<FEATURE_ENERGY_METER, <<"X", "Y", "Z">> >>
    /\ last.warnings = << PyStr(<<"X", "Y", "Z">>) >>
    /\ has_emeter(self, Now).value = PyBool(TRUE)
    /\ FEATURE_TIMER \notin Elements(last.items)

============================================================================
